---- MODULE Spec2Model ----
(***************************************************************************)
(* Model of app.py, a Streamlit page that transcribes an uploaded audio    *)
(* file with Whisper, renders the result as SRT / VTT / TXT, paginates it  *)
(* and lets the user edit and download it.                                 *)
(*                                                                         *)
(* A Streamlit page is a script that is re-executed from top to bottom on  *)
(* every user interaction.  One action of this model is one such script    *)
(* run, from the interaction that triggers it to the last line that run    *)
(* executes.  Text is a sequence of one-character strings.                 *)
(*                                                                         *)
(* model_option and language_option (lines 17-29) only parameterise the    *)
(* external model, whose outcome and result are chosen freely here, and    *)
(* the line that displays the detected language; they are not state.       *)
(***************************************************************************)
EXTENDS Integers, Sequences, FiniteSets, TLC

(***************************************************************************)
(* Bounds of the model.                                                    *)
(***************************************************************************)
MaxEdits == 1       \* texts typed into the editor in one behaviour
MaxSegments == 2    \* segments of a short recording
MaxPages == 2       \* pages of the text of a long recording

(***************************************************************************)
(* Characters and decimal formatting.                                      *)
(***************************************************************************)
NL == "\n"
Whitespace == {" ", NL, "\t"}
DigitChars == <<"0", "1", "2", "3", "4", "5", "6", "7", "8", "9">>

Digit(d) == DigitChars[d + 1]

\* str(n) / f"{n:d}" of a non-negative int
RECURSIVE DecStr(_)
DecStr(n) == IF n < 10 THEN <<Digit(n)>> ELSE DecStr(n \div 10) \o <<Digit(n % 10)>>

\* the 0-flag of a format spec: pad on the left with "0" up to width w, never cut
ZeroPad(s, w) == IF Len(s) >= w THEN s ELSE [i \in 1..(w - Len(s)) |-> "0"] \o s

\* str.replace(a, b) for one-character a and b
Replace(s, a, b) == [i \in DOMAIN s |-> IF s[i] = a THEN b ELSE s[i]]

(***************************************************************************)
(* A time in seconds is a float in the source.  Here it is the record      *)
(* [ms, frac]: ms whole milliseconds plus frac tenths of a millisecond,    *)
(* so that the rounding done by the .3f conversion is part of the model.   *)
(* frac = 5 (an exact tie, which a binary float cannot hold) is not used.  *)
(***************************************************************************)
Seconds(ms, frac) == [ms |-> ms, frac |-> frac]

\* f"{x:06.3f}" for 0 <= x < 60: round to 3 decimals, zero-pad to width 6
Fixed3(x) ==
    LET r == x.ms + (IF x.frac >= 5 THEN 1 ELSE 0)
    IN  ZeroPad(DecStr(r \div 1000) \o <<".">> \o ZeroPad(DecStr(r % 1000), 3), 6)

format_time_int_cast(seconds, format_type) ==
    \* format_time with the minutes taken from the total, not from the remainder
    LET hours == seconds.ms \div 3600000
        minutes == seconds.ms \div 60000
        secs == Seconds(seconds.ms % 60000, seconds.frac)
        out == ZeroPad(DecStr(hours), 2) \o <<":">> \o ZeroPad(DecStr(minutes), 2)
               \o <<":">> \o Fixed3(secs)
    IN  IF format_type = "SRT" THEN Replace(out, ".", ",")
        ELSE IF format_type = "VTT" THEN out
        ELSE <<>>

format_time(seconds, format_type) ==
    LET hours == seconds.ms \div 3600000
        minutes == (seconds.ms % 3600000) \div 60000
        secs == Seconds(seconds.ms % 60000, seconds.frac)
        out == ZeroPad(DecStr(hours), 2) \o <<":">> \o ZeroPad(DecStr(minutes), 2)
               \o <<":">> \o Fixed3(secs)
    IN  IF format_type = "SRT" THEN Replace(out, ".", ",")
        ELSE IF format_type = "VTT" THEN out
        ELSE <<>>

(***************************************************************************)
(* Rendering of the model's result (lines 102-118).                        *)
(***************************************************************************)
RECURSIVE LStrip(_)
LStrip(s) == IF s # <<>> /\ Head(s) \in Whitespace THEN LStrip(Tail(s)) ELSE s

RECURSIVE RStrip(_)
RStrip(s) ==
    IF s # <<>> /\ s[Len(s)] \in Whitespace THEN RStrip(SubSeq(s, 1, Len(s) - 1)) ELSE s

\* str.strip()
Strip(s) == RStrip(LStrip(s))

Arrow == <<" ", "-", "-", ">", " ">>

TimeLine(segment, format_type) ==
    format_time(segment.start, format_type) \o Arrow
    \o format_time(segment.end, format_type) \o <<NL>>

SRTCueUnstripped(i, segment) ==
    \* SRTCue with the segment text written as the model gave it
    DecStr(i) \o <<NL>> \o TimeLine(segment, "SRT") \o segment.text \o <<NL, NL>>

\* lines 113-115: what one SRT segment appends to output_text
SRTCue(i, segment) ==
    DecStr(i) \o <<NL>> \o TimeLine(segment, "SRT") \o Strip(segment.text) \o <<NL, NL>>

\* lines 117-118
VTTCue(segment) == TimeLine(segment, "VTT") \o Strip(segment.text) \o <<NL, NL>>

\* the for loop of lines 107-118; i is the value enumerate() gives the next segment
RECURSIVE RenderLoop(_, _, _, _)
RenderLoop(segments, i, output_text, format) ==
    IF segments = <<>> THEN output_text
    ELSE RenderLoop(Tail(segments), i + 1,
                    output_text \o (IF format = "SRT" THEN SRTCue(i, Head(segments))
                                    ELSE IF format = "VTT" THEN VTTCue(Head(segments))
                                    ELSE <<>>),
                    format)

GenerateOutput(result, format) ==
    IF format = "TXT" THEN result.text ELSE RenderLoop(result.segments, 1, <<>>, format)

(***************************************************************************)
(* Pagination (lines 121-123) and reassembly (line 171).                   *)
(***************************************************************************)
chunk_size == 2000

Min(a, b) == IF a < b THEN a ELSE b

PaginateOverlapping(output_text) ==
    \* Paginate with slices of chunk_size + 1 characters
    [k \in 1..((Len(output_text) + chunk_size - 1) \div chunk_size) |->
        SubSeq(output_text, (k - 1) * chunk_size + 1,
               Min(k * chunk_size + 1, Len(output_text)))]

\* [output_text[i:i+chunk_size] for i in range(0, len(output_text), chunk_size)]
Paginate(output_text) ==
    [k \in 1..((Len(output_text) + chunk_size - 1) \div chunk_size) |->
        SubSeq(output_text, (k - 1) * chunk_size + 1,
               Min(k * chunk_size, Len(output_text)))]

\* "".join(pages)
RECURSIVE Join(_)
Join(pages) == IF pages = <<>> THEN <<>> ELSE Head(pages) \o Join(Tail(pages))

\* str.lower() of a format name
Lower(format) ==
    CASE format = "SRT" -> "srt" [] format = "VTT" -> "vtt" [] format = "TXT" -> "txt"

(***************************************************************************)
(* What the external collaborators can hand to the script.                 *)
(***************************************************************************)
Formats == {"SRT", "TXT", "VTT"}

Letters == <<"a", "b", "c", "d", "e", "f", "g">>
LongText(n) == [i \in 1..n |-> Letters[(i % 7) + 1]]

\* A Whisper result: timed segments, and the text they add up to.
RECURSIVE ConcatText(_)
ConcatText(segments) ==
    IF segments = <<>> THEN <<>> ELSE Head(segments).text \o ConcatText(Tail(segments))

WhisperResult(segments) == [text |-> ConcatText(segments), segments |-> segments]

\* Times and texts of the segments of a short recording, repeated in turn.
TimePool ==
    <<Seconds(0, 0), Seconds(3725500, 0), Seconds(360000001, 0), Seconds(3599999, 0)>>
TextPool == << <<" ", "H", "i", " ">>, <<" ", "y", "o", NL>>, <<"o", "k">> >>

Segment(k) ==
    [start |-> TimePool[((k - 1) % Len(TimePool)) + 1],
     end   |-> TimePool[(k % Len(TimePool)) + 1],
     text  |-> TextPool[((k - 1) % Len(TextPool)) + 1]]

ShortResult(n) == WhisperResult([k \in 1..n |-> Segment(k)])

\* 59.9996 s is a time that is not a whole number of milliseconds
LongResult(n) ==
    WhisperResult(<<[start |-> Seconds(0, 0), end |-> Seconds(59999, 6),
                     text |-> LongText(n)]>>)

\* The recordings the user can upload, named by what Whisper makes of them:
\* <<"short", n>> has n segments, <<"long", n>> one segment of n characters.
\* The text of the long one fills MaxPages - 1 pages exactly; rendered as SRT
\* or VTT it runs over into one more, shorter page.
Recordings ==
    {<<"short", 0>>, <<"short", MaxSegments>>, <<"long", chunk_size * (MaxPages - 1)>>}

\* line 92: model.transcribe, when it returns (tabulated: evaluated once)
WhisperTable ==
    [recording \in Recordings |->
        IF recording[1] = "short" THEN ShortResult(recording[2])
        ELSE LongResult(recording[2])]

Whisper(recording) == WhisperTable[recording]

\* lines 92-118 for a recording (tabulated: evaluated once)
OutputTable ==
    [recording \in Recordings, format \in Formats |->
        GenerateOutput(Whisper(recording), format)]

Render(recording, format) == OutputTable[recording, format]

\* what the user can type into the editor
EditTexts == {<<>>, <<"e", "d", "i", "t">>}

\* how a press of "Transcribe Audio" can go
Outcomes == {"load_error", "write_error", "transcribe_error", "format_error", "ok"}

(***************************************************************************)
(* State.  Every state is the state between two script runs.               *)
(***************************************************************************)
VARIABLES
    audio_file,            \* TRUE when the uploader holds a file (line 58)
    format_option,         \* the sidebar's "Output Format" (line 31)
    session_state,         \* st.session_state: pages, current_page, edited_pages
    editor,                \* the text_area the page shows, as Streamlit keeps it
    key_as_main_identity,  \* how the Streamlit build identifies a keyed widget
    temp_file_exists,      \* the file of the last run that made one is on disk
    message,               \* what the last run reported (st.error / st.success)
    file_extension,        \* line 174 of the last run, "" when it was not reached
    transcribed,           \* the recording of the last successful transcription
    rendered_format,       \* the format_option that run rendered it with
    edits                  \* texts typed into the editor so far

vars == <<audio_file, format_option, session_state, editor, key_as_main_identity,
          temp_file_exists, message, file_extension, transcribed, rendered_format,
          edits>>

\* No text_area on the page.
NoWidget == [key |-> -1, value |-> <<>>, state |-> <<>>]

\* session_state of a fresh session: none of the three keys is set
EmptySession ==
    [has_pages |-> FALSE, pages |-> <<>>, current_page |-> 0, edited_pages |-> <<>>]

(***************************************************************************)
(* The "Transcribe Audio" handler, lines 69-139.  outcome says where, if    *)
(* anywhere, the run raises.  flow is how the script goes on afterwards:    *)
(* "continue" to line 141, "stop" (st.stop) or "exception" (uncaught).      *)
(***************************************************************************)
\* lines 120-125
InitPagination(ss, text) ==
    LET pages == Paginate(text)
    IN  [has_pages |-> TRUE, pages |-> pages, current_page |-> 0, edited_pages |-> pages]

TranscribeHandlerResetFirst(ss, outcome, recording, format, exists) ==
    \* TranscribeHandler with the page buffers cleared as soon as the button is pressed
    IF outcome = "load_error" THEN
        [session |-> EmptySession, message |-> "Error loading model", flow |-> "stop",
         temp_file_exists |-> exists, done |-> FALSE]
    ELSE IF outcome = "write_error" THEN
        [session |-> EmptySession, message |-> "uncaught", flow |-> "exception",
         temp_file_exists |-> TRUE, done |-> FALSE]
    ELSE IF outcome \in {"transcribe_error", "format_error"} THEN
        [session |-> EmptySession, message |-> "Transcription failed", flow |-> "continue",
         temp_file_exists |-> FALSE, done |-> FALSE]
    ELSE
        [session |-> InitPagination(ss, Render(recording, format)),
         message |-> "Transcription Complete", flow |-> "continue",
         temp_file_exists |-> FALSE, done |-> TRUE]

TranscribeHandler(ss, outcome, recording, format, exists) ==
    IF outcome = "load_error" THEN
        \* lines 78-80: nothing after st.stop() runs
        [session |-> ss, message |-> "Error loading model", flow |-> "stop",
         temp_file_exists |-> exists, done |-> FALSE]
    ELSE IF outcome = "write_error" THEN
        \* lines 83-85 raise outside the try: the file was created with
        \* delete=False, closing it keeps it, and line 137 is never reached
        [session |-> ss, message |-> "uncaught", flow |-> "exception",
         temp_file_exists |-> TRUE, done |-> FALSE]
    ELSE IF outcome \in {"transcribe_error", "format_error"} THEN
        \* lines 92-118 raise; 134-135 report; 137 unlinks
        [session |-> ss, message |-> "Transcription failed", flow |-> "continue",
         temp_file_exists |-> FALSE, done |-> FALSE]
    ELSE
        [session |-> InitPagination(ss, Render(recording, format)),
         message |-> "Transcription Complete", flow |-> "continue",
         temp_file_exists |-> FALSE, done |-> TRUE]

(***************************************************************************)
(* st.text_area (lines 160-165).  Streamlit keeps the state of a widget     *)
(* across script runs for as long as every run renders it, and returns      *)
(* that state; value is returned only for a widget it sees as new.  A       *)
(* build that identifies a keyed widget by its key alone sees the same      *)
(* widget whenever the key is the same; a build that identifies it by key   *)
(* and parameters sees a new one when value changed.  typed is the set      *)
(* holding the text the user entered before this run, if any.               *)
(***************************************************************************)
TextArea(widget, key, value, typed, by_key) ==
    LET same == widget.key = key /\ (by_key \/ widget.value = value)
        text == IF ~same THEN value
                ELSE IF typed # {} THEN CHOOSE t \in typed : TRUE
                ELSE widget.state
    IN  [key |-> key, value |-> value, state |-> text]

(***************************************************************************)
(* The edit section, lines 141-180.                                        *)
(***************************************************************************)
\* line 148
PreviousShown(ss) == ss.has_pages /\ Len(ss.pages) > 0 /\ ss.current_page > 0

NextShownUnchecked(ss) ==
    \* NextShown without the comparison against the number of pages
    ss.has_pages /\ Len(ss.pages) > 0

\* line 152
NextShown(ss) ==
    ss.has_pages /\ Len(ss.pages) > 0 /\ ss.current_page < Len(ss.pages) - 1

StoreEditAliased(ss, k, edited_text) ==
    \* StoreEdit when edited_pages is the same list object as pages
    [ss EXCEPT !.edited_pages[k + 1] = edited_text, !.pages[k + 1] = edited_text]

\* line 168
StoreEdit(ss, k, edited_text) == [ss EXCEPT !.edited_pages[k + 1] = edited_text]

EditSection(ss, widget, format, click, typed, by_key) ==
    IF ~(ss.has_pages /\ Len(ss.pages) > 0) THEN
        [session |-> ss, editor |-> NoWidget, file_extension |-> "", message |-> ""]
    ELSE
        LET s1 == IF click = "previous" /\ PreviousShown(ss)
                  THEN [ss EXCEPT !.current_page = @ - 1] ELSE ss
            s2 == IF click = "next" /\ NextShown(s1)
                  THEN [s1 EXCEPT !.current_page = @ + 1] ELSE s1
            current_page == s2.current_page
        IN  IF current_page + 1 \notin DOMAIN s2.edited_pages THEN
                \* line 162 raises IndexError
                [session |-> s2, editor |-> NoWidget, file_extension |-> "",
                 message |-> "IndexError"]
            ELSE
                LET w == TextArea(widget, current_page, s2.edited_pages[current_page + 1],
                                  typed, by_key)
                IN  [session |-> StoreEdit(s2, current_page, w.state), editor |-> w,
                     file_extension |-> Lower(format), message |-> ""]

\* line 171, the data of the download button
final_transcript == Join(session_state.edited_pages)

\* result and output_text (lines 92-118) of the last successful transcription
result == Whisper(transcribed)
output_text == Render(transcribed, rendered_format)

(***************************************************************************)
(* One script run: the interaction click, with the sidebar at format.      *)
(***************************************************************************)
Run(click, format, typed, outcome, recording) ==
    LET h == IF click = "transcribe"
             THEN TranscribeHandler(session_state, outcome, recording, format,
                                    temp_file_exists)
             ELSE [session |-> session_state, message |-> "", flow |-> "continue",
                   temp_file_exists |-> temp_file_exists, done |-> FALSE]
        e == IF h.flow = "continue"
             THEN EditSection(h.session, editor, format, click, typed,
                              key_as_main_identity)
             ELSE [session |-> h.session, editor |-> NoWidget, file_extension |-> "",
                   message |-> ""]
    IN  /\ format_option' = format
        /\ session_state' = e.session
        /\ editor' = e.editor
        /\ file_extension' = e.file_extension
        /\ message' = IF e.message # "" THEN e.message ELSE h.message
        /\ temp_file_exists' = h.temp_file_exists
        /\ transcribed' = IF h.done THEN recording ELSE transcribed
        /\ rendered_format' = IF h.done THEN format ELSE rendered_format
        /\ UNCHANGED key_as_main_identity

Init ==
    /\ audio_file = FALSE
    /\ format_option = "SRT"
    /\ session_state = EmptySession
    /\ editor = NoWidget
    /\ key_as_main_identity \in BOOLEAN
    /\ temp_file_exists = FALSE
    /\ message = ""
    /\ file_extension = ""
    /\ transcribed = <<"short", 0>>
    /\ rendered_format = "TXT"
    /\ edits = 0

\* line 58: the user puts a file into the uploader
Upload ==
    /\ ~audio_file
    /\ audio_file' = TRUE
    /\ Run("upload", format_option, {}, "ok", transcribed)
    /\ UNCHANGED edits

\* line 31: the user picks another output format
SelectFormat ==
    \E f \in Formats \ {format_option} :
        /\ Run("format", f, {}, "ok", transcribed)
        /\ UNCHANGED <<audio_file, edits>>

\* line 69
Transcribe ==
    /\ audio_file
    /\ \E outcome \in Outcomes, recording \in Recordings :
           Run("transcribe", format_option, {}, outcome, recording)
    /\ UNCHANGED <<audio_file, edits>>

\* line 149
ClickPrevious ==
    /\ editor # NoWidget
    /\ PreviousShown(session_state)
    /\ Run("previous", format_option, {}, "ok", transcribed)
    /\ UNCHANGED <<audio_file, edits>>

\* line 153
ClickNext ==
    /\ editor # NoWidget
    /\ NextShown(session_state)
    /\ Run("next", format_option, {}, "ok", transcribed)
    /\ UNCHANGED <<audio_file, edits>>

\* line 160: the user changes the text in the editor
Edit ==
    /\ editor # NoWidget
    /\ edits < MaxEdits
    /\ edits' = edits + 1
    /\ \E t \in EditTexts \ {editor.state} :
           Run("edit", format_option, {t}, "ok", transcribed)
    /\ UNCHANGED audio_file

\* line 175
Download ==
    /\ editor # NoWidget
    /\ Run("download", format_option, {}, "ok", transcribed)
    /\ UNCHANGED <<audio_file, edits>>

Next ==
    \/ Upload
    \/ SelectFormat
    \/ Transcribe
    \/ ClickPrevious
    \/ ClickNext
    \/ Edit
    \/ Download

Spec == Init /\ [][Next]_vars

(***************************************************************************)
(* Properties.                                                             *)
(***************************************************************************)
pages == session_state.pages
edited_pages == session_state.edited_pages
current_page == session_state.current_page

Errors == {"Error loading model", "Transcription failed"}

\* C1: when a run ends, the temporary audio file it created no longer exists,
\* whichever way the run ended (success, a failing transcribe call, a failure
\* while formatting, a failure while writing the upload into the file).
C1_TempFileRemoved == ~temp_file_exists

\* C2: a run that reports "Error loading model" or "Transcription failed"
\* leaves pages, edited_pages and current_page as they were before it.
C2_FailedRunKeepsSession ==
    [][message' \in Errors => session_state' = session_state]_vars

\* a failed transcription after the user went to a later page and edited it
C2_Witness ==
    /\ message = "Transcription failed"
    /\ Len(pages) >= 2
    /\ current_page > 0
    /\ edited_pages[current_page + 1] \in EditTexts
    /\ edited_pages # pages

\* C3: an edit of the page shown at index k replaces edited_pages[k] only: the
\* other entries, the baseline pages and both lengths stay, and the document
\* for download changes only in the part that page k contributes.  Neither
\* an edit nor a page change alters the baseline.
C3_EditReplacesOnePage ==
    [][LET k == current_page + 1
           old == edited_pages
           new == session_state'.edited_pages
       IN  /\ edits' = edits + 1 =>
                /\ session_state'.pages = pages
                /\ session_state'.current_page = current_page
                /\ Len(new) = Len(old)
                /\ \A i \in DOMAIN old \ {k} : new[i] = old[i]
                /\ final_transcript' = Join(SubSeq(old, 1, k - 1)) \o new[k]
                                       \o Join(SubSeq(old, k + 1, Len(old)))
           /\ (session_state'.current_page # current_page
               /\ message' # "Transcription Complete") =>
                session_state'.pages = pages
      ]_vars

\* one page of several holds what the user typed, the others are as rendered
C3_Witness ==
    /\ edits > 0
    /\ Len(pages) >= 2
    /\ \E k \in DOMAIN edited_pages :
          /\ edited_pages[k] \in EditTexts
          /\ edited_pages[k] # pages[k]
          /\ \A i \in DOMAIN edited_pages \ {k} : edited_pages[i] = pages[i]

\* C4: while no page has been edited, the document for download, the
\* concatenation of the working-copy pages, is the formatted text of the
\* transcription, whatever its length and wherever the user has paged to.
C4_RoundTrip ==
    (session_state.has_pages /\ edits = 0) => final_transcript = output_text

\* the lengths of the pages of a text of 4500 characters
PageLengths4500 ==
    [k \in DOMAIN Paginate(LongText(4500)) |-> Len(Paginate(LongText(4500))[k])]

\* C5: a text of n characters is cut into ceil(n / 2000) pages, in order, all
\* of 2000 characters but the last, which has 1 to 2000; no text, no page;
\* 4500 characters give pages of 2000, 2000 and 500.
C5_Pagination ==
    session_state.has_pages =>
        LET n == Len(output_text)
            m == Len(pages)
        IN  /\ PageLengths4500 = <<2000, 2000, 500>>
            /\ n = 0 => m = 0
            /\ n > 0 => (m - 1) * 2000 < n /\ n <= m * 2000
            /\ \A k \in 1..(m - 1) : Len(pages[k]) = 2000
            /\ m > 0 => Len(pages[m]) \in 1..2000
            /\ \A k \in 1..m :
                  pages[k] = SubSeq(output_text, 2000 * (k - 1) + 1,
                                    2000 * (k - 1) + Len(pages[k]))

\* a text that needs a last, shorter page
C5_Witness ==
    /\ session_state.has_pages
    /\ Len(pages) >= 2
    /\ Len(pages[Len(pages)]) < 2000
    /\ Len(output_text) > 2000

\* C6: the extension of the file offered for download is the lower-cased name
\* of the format in which the pages to export were rendered.
C6_ExtensionMatchesRendering ==
    editor # NoWidget => file_extension = Lower(rendered_format)

\* the text between the first and the last character that is not whitespace
RECURSIVE FirstInk(_, _)
FirstInk(s, i) == IF i > Len(s) \/ s[i] \notin Whitespace THEN i ELSE FirstInk(s, i + 1)

RECURSIVE LastInk(_, _)
LastInk(s, i) == IF i < 1 \/ s[i] \notin Whitespace THEN i ELSE LastInk(s, i - 1)

Trimmed(s) == SubSeq(s, FirstInk(s, 1), LastInk(s, Len(s)))

\* cue block i: the line i, the time line, the trimmed text, a blank line
CueBlock(i, segment) ==
    DecStr(i) \o <<NL>>
    \o format_time(segment.start, "SRT") \o <<" ", "-", "-", ">", " ">>
    \o format_time(segment.end, "SRT") \o <<NL>>
    \o Trimmed(segment.text) \o <<NL>>
    \o <<NL>>

RECURSIVE CueBlocks(_, _)
CueBlocks(segments, n) ==
    IF n = 0 THEN <<>> ELSE CueBlocks(segments, n - 1) \o CueBlock(n, segments[n])

ExpectedSRT ==
    [recording \in Recordings |->
        CueBlocks(Whisper(recording).segments, Len(Whisper(recording).segments))]

\* C7: the SRT rendering of n segments is exactly the n cue blocks 1..n, in
\* the order of the segments.
C7_SRTBlocks ==
    (session_state.has_pages /\ rendered_format = "SRT") =>
        Join(pages) = ExpectedSRT[transcribed]

\* an SRT rendering of two segments or more, whose texts need trimming
C7_Witness ==
    /\ session_state.has_pages
    /\ rendered_format = "SRT"
    /\ Len(result.segments) >= 2
    /\ \E k \in DOMAIN result.segments :
          Trimmed(result.segments[k].text) # result.segments[k].text
    /\ Len(pages) > 0

\* C8: the pages of an earlier run are discarded by a new transcription: when
\* the new run has succeeded, pages and edited_pages hold nothing of the
\* earlier run, original or edited: both are the chunks of the new output,
\* and current_page is 0.
C8_NewRunDiscardsEarlierPages ==
    message = "Transcription Complete" =>
        /\ edited_pages = pages
        /\ pages = Paginate(output_text)
        /\ current_page = 0

\* the number a string of digits denotes
DigitOf(c) == CHOOSE d \in 0..9 : DigitChars[d + 1] = c

RECURSIVE Number(_)
Number(ds) ==
    IF ds = <<>> THEN 0 ELSE 10 * Number(SubSeq(ds, 1, Len(ds) - 1)) + DigitOf(ds[Len(ds)])

IsDigits(ds) == \A i \in DOMAIN ds : \E d \in 0..9 : DigitChars[d + 1] = ds[i]

\* format_time of t reads HH:MM:SS<sep>mmm and denotes t
TimeFormatted(t) ==
    LET srt == format_time(t, "SRT")
        vtt == format_time(t, "VTT")
        n   == Len(srt)
        hh  == SubSeq(srt, 1, n - 10)
        mm  == SubSeq(srt, n - 8, n - 7)
        ss  == SubSeq(srt, n - 5, n - 4)
        ms  == SubSeq(srt, n - 2, n)
    IN  /\ n >= 12
        /\ srt[n - 9] = ":" /\ srt[n - 6] = ":" /\ srt[n - 3] = ","
        /\ IsDigits(hh) /\ IsDigits(mm) /\ IsDigits(ss) /\ IsDigits(ms)
        /\ Number(hh) = t.ms \div 3600000
        /\ n > 12 => hh[1] # "0"
        /\ Number(mm) = (t.ms \div 60000) % 60
        /\ Number(mm) \in 0..59
        /\ Number(ss) \in 0..59
        /\ Number(ms) = t.ms % 1000
        /\ ((Number(hh) * 60 + Number(mm)) * 60 + Number(ss)) * 1000 + Number(ms) = t.ms
        /\ vtt = [srt EXCEPT ![n - 3] = "."]
        /\ t = Seconds(3725500, 0) =>
              srt = <<"0", "1", ":", "0", "2", ":", "0", "5", ",", "5", "0", "0">>

\* C9: for a time of whole milliseconds, format_time gives HH:MM:SS,mmm (SRT)
\* and HH:MM:SS.mmm (VTT): hours floor(t/3600) in two digits or more, minutes
\* and seconds in 00..59, three digits of milliseconds; 3725.5 gives
\* 01:02:05,500 and 01:02:05.500.
C9_TimeFormat ==
    \A k \in DOMAIN result.segments :
        \A t \in {result.segments[k].start, result.segments[k].end} :
            t.frac = 0 => TimeFormatted(t)

\* a rendering that shows 3725.5 s and a time of a hundred hours
C9_Witness ==
    /\ session_state.has_pages
    /\ rendered_format = "SRT"
    /\ Len(pages) > 0
    /\ Len(pages[1]) >= 31
    /\ SubSeq(pages[1], 20, 31)
         = <<"0", "1", ":", "0", "2", ":", "0", "5", ",", "5", "0", "0">>
    /\ \E k \in DOMAIN result.segments : result.segments[k].end.ms >= 360000000

\* C10: whenever there are pages, current_page is an index of pages and
\* edited_pages is as long as pages, so line 162 never indexes out of range.
C10_PageInRange ==
    /\ message # "IndexError"
    /\ (session_state.has_pages /\ Len(pages) > 0) =>
          /\ 0 <= current_page
          /\ current_page <= Len(pages) - 1
          /\ Len(edited_pages) = Len(pages)

\* the last page of several is shown
C10_Witness ==
    /\ session_state.has_pages
    /\ Len(pages) >= 2
    /\ current_page = Len(pages) - 1
    /\ editor.key = current_page
====
